---- MODULE Spec2Model ----
(***************************************************************************)
(* Weighted Ultimate Tic-Tac-Toe: the rules engine (defs.rs), the match    *)
(* driver play_match (defs.rs) and the MCTS move search (mcts.rs).         *)
(*                                                                         *)
(* Option<T> values are modelled as sequences: <<>> is None and <<v>> is   *)
(* Some(v).  Arrays [T; 9] are functions over 0..8, Vec<T> are sequences.  *)
(***************************************************************************)
EXTENDS Integers, Sequences, FiniteSets, Bags, TLC

VARIABLES
    grid,            \* the Grid operated on (play_match's grid / a free-standing Grid)
    last_move,       \* play_match: Option<Coord>
    current_player,  \* play_match: Cell
    number_turns,    \* play_match: u8
    pc,              \* position of the running entry point
    stats,           \* play_match: the returned MatchStats, <<>> until it returns
    script,          \* moves the two strategies are still going to answer, in order
    free,            \* number of unscripted strategy answers so far
    op,              \* last Grid method called on grid ("new", "set", "update_grid", "is_completed")
    won,             \* is_completed's last return value
    symbol,          \* MCTSPlayer.symbol
    simulation_steps,    \* MCTSPlayer.simulation_steps
    nodes,           \* select_move: the Nodes allocated so far; an Arc<Node> is an index into it
    initial_legal_moves, \* select_move: Vec<Coord>
    iter,            \* select_move: the bag of the states of the parallel iterations
    ret,             \* select_move: the returned Coord, <<>> until it returns
    simulated,       \* history: the bag of the rollouts played, as [node, result]
    workers          \* rayon pool: the bag of the call stacks of the threads that run
                     \* iterations, each the sequence of its iterations, innermost first

matchVars == <<current_player, number_turns, stats, script, free>>
mctsVars == <<symbol, simulation_steps, nodes, initial_legal_moves, iter, ret, simulated,
             workers>>
vars == <<grid, last_move, pc, op, won, matchVars, mctsVars>>

----------------------------------------------------------------------------
(* defs.rs: board model *)

Empty == "Empty"
Cross == "Cross"
Circle == "Circle"
Cell == {Empty, Cross, Circle}

None == << >>
Some(v) == <<v>>

Idx == 0..8

Coord(mx, my, lx, ly) == [meta_x |-> mx, meta_y |-> my, x |-> lx, y |-> ly]
Coords == {Coord(mx, my, lx, ly) : mx \in 0..2, my \in 0..2, lx \in 0..2, ly \in 0..2}

MinigridDefault == [j \in Idx |-> Empty]
GridDefault == [matrix |-> [i \in Idx |-> MinigridDefault],
                completed_minigrid |-> [i \in Idx |-> Empty]]

\* The eight index triples pushed, in this order, by update_grid and is_completed.
Lines == << <<0, 1, 2>>, <<3, 4, 5>>, <<6, 7, 8>>,
            <<0, 3, 6>>, <<1, 4, 7>>, <<2, 5, 8>>,
            <<0, 4, 8>>, <<2, 4, 6>> >>

\* Minigrid::check and Grid::check_completed share this body over a [Cell; 9].
check(matrix, v1, v2, v3) ==
    IF matrix[v1] # Empty /\ matrix[v1] = matrix[v2] /\ matrix[v2] = matrix[v3]
    THEN Some(matrix[v1])
    ELSE None

check_completed(g, v1, v2, v3) == check(g.completed_minigrid, v1, v2, v3)

\* `for r in results { if r.is_some() { ... break / return } }`
FirstSome(results) ==
    IF \E k \in 1..Len(results) : results[k] # None
    THEN results[CHOOSE k \in 1..Len(results) :
                    /\ results[k] # None
                    /\ \A j \in 1..(k-1) : results[j] = None]
    ELSE None

minigrid_pos(coord) == coord.meta_x + 3 * coord.meta_y
grid_pos(coord) == coord.x + 3 * coord.y

set_swaps_x_y(g, coord, sym) ==
    [g EXCEPT !.matrix[minigrid_pos(coord)][coord.y + 3 * coord.x] = sym]

set(g, coord, sym) ==
    [g EXCEPT !.matrix[minigrid_pos(coord)][grid_pos(coord)] = sym]

update_grid_second_row_first(g) ==
    [g EXCEPT !.completed_minigrid =
        [index \in Idx |->
            LET results == [k \in 1..8 |->
                    LET l == Lines[IF k = 1 THEN 2 ELSE IF k = 2 THEN 1 ELSE k]
                    IN check(g.matrix[index], l[1], l[2], l[3])]
                r == FirstSome(results)
            IN IF r # None THEN r[1] ELSE g.completed_minigrid[index]]]

update_grid(g) ==
    [g EXCEPT !.completed_minigrid =
        [index \in Idx |->
            LET minigrid == g.matrix[index]
                results == [k \in 1..8 |->
                    check(minigrid, Lines[k][1], Lines[k][2], Lines[k][3])]
                r == FirstSome(results)
            IN IF r # None THEN r[1] ELSE g.completed_minigrid[index]]]

is_completed_rows_only(g) ==
    FirstSome([k \in 1..3 |->
        check_completed(g, Lines[k][1], Lines[k][2], Lines[k][3])])

is_completed(g) ==
    FirstSome([k \in 1..8 |->
        check_completed(g, Lines[k][1], Lines[k][2], Lines[k][3])])

\* completed_minigrid.iter().enumerate().filter_map(..).collect(), from index i on
RECURSIVE OpenMetas(_, _)
OpenMetas(completed, i) ==
    IF i > 8 THEN << >>
    ELSE (IF completed[i] = Empty THEN << <<i % 3, i \div 3>> >> ELSE << >>)
         \o OpenMetas(completed, i + 1)

\* `for y in 0..3 { for x in 0..3 { .. } }` over one minigrid, from cell k = x + 3*y on
RECURSIVE EmptyCells(_, _, _, _)
EmptyCells(minigrid, mx, my, k) ==
    IF k > 8 THEN << >>
    ELSE (IF minigrid[(k % 3) + (k \div 3) * 3] = Empty
          THEN << Coord(mx, my, k % 3, k \div 3) >> ELSE << >>)
         \o EmptyCells(minigrid, mx, my, k + 1)

\* `for (meta_x, meta_y) in allowed_meta`, from position n of allowed_meta on
RECURSIVE MovesOf(_, _, _)
MovesOf(g, allowed_meta, n) ==
    IF n > Len(allowed_meta) THEN << >>
    ELSE LET mx == allowed_meta[n][1]
             my == allowed_meta[n][2]
         IN EmptyCells(g.matrix[mx + my * 3], mx, my, 0)
            \o MovesOf(g, allowed_meta, n + 1)

allowed_meta_never_widens(g, lm) ==
    IF lm # None
    THEN << <<lm[1].x, lm[1].y>> >>
    ELSE OpenMetas(g.completed_minigrid, 0)

allowed_meta_ignores_slot(g, lm) ==
    IF lm # None
    THEN LET target_meta_idx == lm[1].x + lm[1].y * 3
         IN IF g.completed_minigrid[target_meta_idx] = Empty
            THEN << <<lm[1].x, lm[1].y>> >>
            ELSE [i \in 1..9 |-> <<(i - 1) % 3, (i - 1) \div 3>>]
    ELSE OpenMetas(g.completed_minigrid, 0)

allowed_meta_widens_when_full(g, lm) ==
    IF lm # None
    THEN LET target_meta_idx == lm[1].x + lm[1].y * 3
         IN IF /\ g.completed_minigrid[target_meta_idx] = Empty
               /\ \E j \in Idx : g.matrix[target_meta_idx][j] = Empty
            THEN << <<lm[1].x, lm[1].y>> >>
            ELSE OpenMetas(g.completed_minigrid, 0)
    ELSE OpenMetas(g.completed_minigrid, 0)

allowed_meta(g, lm) ==
    IF lm # None
    THEN LET local_x == lm[1].x
             local_y == lm[1].y
             target_meta_idx == local_x + local_y * 3
         IN IF g.completed_minigrid[target_meta_idx] = Empty
            THEN << <<local_x, local_y>> >>
            ELSE OpenMetas(g.completed_minigrid, 0)
    ELSE OpenMetas(g.completed_minigrid, 0)

get_legal_moves_any_empty_cell(g, lm) ==
    MovesOf(g, [i \in 1..9 |-> <<(i - 1) % 3, (i - 1) \div 3>>], 1)

get_legal_moves(g, lm) == MovesOf(g, allowed_meta(g, lm), 1)

Range(s) == {s[k] : k \in 1..Len(s)}

----------------------------------------------------------------------------
(* The answers of the two strategies handed to play_match.  Player::select_move *)
(* is an interface: its implementations are modelled by the moves they return,  *)
(* either the next move of a fixed line of play or any entry of legal_moves.    *)

\* Both players keep filling the centre minigrid until it is full without a line.
ScriptFullTarget ==
    << Coord(1, 1, 0, 2), Coord(0, 2, 1, 1), Coord(1, 1, 0, 0), Coord(0, 0, 1, 1),
       Coord(1, 1, 1, 0), Coord(1, 0, 1, 1), Coord(1, 1, 2, 1), Coord(2, 1, 1, 1),
       Coord(1, 1, 1, 1), Coord(1, 1, 2, 2), Coord(2, 2, 1, 1), Coord(1, 1, 1, 2),
       Coord(1, 2, 1, 1), Coord(1, 1, 2, 0), Coord(2, 0, 1, 1), Coord(1, 1, 0, 1),
       Coord(0, 1, 1, 1) >>

\* Cross wins the minigrids 1, 4 and 7, the middle column of the meta-board.
ScriptWin ==
    << Coord(1, 2, 0, 2), Coord(0, 2, 1, 1), Coord(1, 1, 2, 0), Coord(2, 0, 1, 0),
       Coord(1, 0, 0, 1), Coord(0, 1, 1, 0), Coord(1, 0, 2, 1), Coord(2, 1, 1, 2),
       Coord(1, 2, 1, 2), Coord(1, 2, 1, 1), Coord(1, 1, 0, 2), Coord(0, 2, 1, 2),
       Coord(1, 2, 2, 2), Coord(2, 2, 1, 0), Coord(1, 0, 1, 1), Coord(1, 1, 1, 2),
       Coord(1, 1, 1, 1) >>

\* After 35 moves seven minigrids are decided; minigrid 6, the forced target, has
\* three Empty cells, one of which wins the match for Circle, and minigrid 5 two.
ScriptEndgame ==
    << Coord(2, 1, 2, 0), Coord(2, 0, 2, 1), Coord(2, 1, 0, 1), Coord(0, 1, 1, 2),
       Coord(1, 2, 1, 1), Coord(1, 1, 1, 2), Coord(1, 2, 0, 1), Coord(0, 1, 0, 2),
       Coord(0, 2, 0, 0), Coord(0, 0, 2, 2), Coord(2, 2, 0, 2), Coord(0, 2, 0, 2),
       Coord(0, 2, 0, 1), Coord(0, 1, 2, 2), Coord(2, 2, 1, 1), Coord(1, 1, 2, 2),
       Coord(2, 2, 2, 0), Coord(2, 0, 2, 2), Coord(1, 2, 2, 1), Coord(2, 1, 2, 1),
       Coord(2, 1, 2, 2), Coord(2, 0, 2, 0), Coord(1, 1, 2, 0), Coord(1, 1, 0, 2),
       Coord(0, 2, 2, 2), Coord(0, 0, 0, 2), Coord(0, 2, 2, 1), Coord(2, 1, 1, 0),
       Coord(1, 0, 2, 0), Coord(0, 0, 1, 2), Coord(1, 0, 0, 0), Coord(0, 2, 1, 1),
       Coord(1, 0, 1, 0), Coord(2, 1, 0, 0), Coord(2, 1, 0, 2) >>

\* The same line of play with Circle declining the win: the move sends Cross to
\* minigrid 1, which is decided, so Cross may play in minigrid 5 or 6.
ScriptEndgameWide == Append(ScriptEndgame, Coord(0, 2, 1, 0))

\* A line of play that leaves three empty cells in undecided minigrids: Circle
\* is sent to minigrid 6, where (0,2,0,1) wins the match and (0,2,0,2) does not;
\* the third cell is the centre of minigrid 5.
ScriptLastCells ==
    << Coord(0, 2, 0, 0), Coord(0, 0, 1, 1), Coord(1, 1, 0, 0), Coord(0, 0, 2, 2),
       Coord(2, 2, 0, 1), Coord(0, 1, 1, 2), Coord(1, 2, 0, 1), Coord(0, 1, 2, 2),
       Coord(2, 2, 1, 1), Coord(1, 1, 2, 2), Coord(2, 2, 2, 1), Coord(2, 1, 0, 1),
       Coord(0, 1, 1, 1), Coord(1, 1, 1, 2), Coord(1, 2, 2, 0), Coord(2, 0, 2, 1),
       Coord(2, 1, 0, 0), Coord(0, 0, 0, 0), Coord(1, 2, 2, 1), Coord(2, 1, 2, 2),
       Coord(1, 2, 1, 1), Coord(1, 1, 0, 2), Coord(0, 2, 2, 2), Coord(0, 1, 0, 2),
       Coord(0, 2, 2, 0), Coord(2, 0, 2, 2), Coord(1, 0, 0, 0), Coord(2, 0, 2, 0),
       Coord(1, 0, 0, 2), Coord(0, 2, 1, 0), Coord(1, 0, 0, 1), Coord(2, 1, 1, 0),
       Coord(2, 1, 2, 0), Coord(0, 2, 1, 1), Coord(0, 2, 1, 2), Coord(2, 1, 2, 1),
       Coord(2, 1, 1, 2), Coord(0, 2, 2, 1), Coord(2, 1, 0, 2) >>

Scripts == {<< >>, ScriptFullTarget, ScriptWin, ScriptEndgameWide}

\* How many answers that are not scripted a match may contain.
MaxFree == 1

----------------------------------------------------------------------------
(* defs.rs: play_match *)

Other_keeps_symbol(sym) == sym

Other(sym) == IF sym = Cross THEN Circle ELSE Cross

MatchStats(w, n, g) == [winner |-> w, number_turns |-> n, final_grid |-> g]

\* No MCTSPlayer::select_move call is in progress.
NoSearch ==
    /\ symbol = Empty
    /\ simulation_steps = 0
    /\ nodes = << >>
    /\ initial_legal_moves = << >>
    /\ iter = EmptyBag
    /\ ret = None
    /\ simulated = EmptyBag
    /\ workers = EmptyBag

Init ==
    /\ grid = GridDefault
    /\ last_move = None
    /\ current_player = Cross
    /\ number_turns = 0
    /\ pc = "loop"
    /\ stats = None
    /\ script \in Scripts
    /\ free = 0
    /\ op = "new"
    /\ won = None
    /\ NoSearch

\* One pass of the loop body with `coord` the strategy's answer.
Turn(coord) ==
    LET g == update_grid(set(grid, coord, current_player))
        w == is_completed(g)
    IN /\ grid' = g
       /\ last_move' = Some(coord)
       /\ won' = w
       /\ op' = "is_completed"
       /\ IF w # None
          THEN /\ stats' = Some(MatchStats(Some(w[1]), number_turns, g))
               /\ pc' = "returned"
               /\ UNCHANGED <<current_player, number_turns>>
          ELSE /\ current_player' = Other(current_player)
               /\ number_turns' = number_turns + 1
               /\ UNCHANGED <<stats, pc>>

ScriptedTurn ==
    /\ pc = "loop"
    /\ script # << >>
    /\ Head(script) \in Range(get_legal_moves(grid, last_move))
    /\ Turn(Head(script))
    /\ script' = Tail(script)
    /\ UNCHANGED <<free, mctsVars>>

FreeTurn ==
    /\ pc = "loop"
    /\ free < MaxFree
    /\ \E coord \in Range(get_legal_moves(grid, last_move)) : Turn(coord)
    /\ script' = << >>
    /\ free' = free + 1
    /\ UNCHANGED mctsVars

NoMoves ==
    /\ pc = "loop"
    /\ Len(get_legal_moves(grid, last_move)) = 0
    /\ stats' = Some(MatchStats(None, number_turns, grid))
    /\ pc' = "returned"
    /\ UNCHANGED <<grid, last_move, current_player, number_turns, script, free, op, won, mctsVars>>

Next == ScriptedTurn \/ FreeTurn \/ NoMoves

Spec == Init /\ [][Next]_vars

----------------------------------------------------------------------------
(* Properties of get_legal_moves on the boards of a match *)

LastMoves == {None} \cup {Some(c) : c \in Coords}

\* The forced target minigrid: the one at the local (x, y) of the last move.
Target(lm) == lm[1].x + lm[1].y * 3

HasEmptyCell(g, i) == \E j \in Idx : g.matrix[i][j] = Empty

\* C1: on every board reached by legal play and for every last_move, each Coord
\* returned by get_legal_moves addresses an Empty cell of a minigrid whose
\* meta-outcome slot is Empty, and lies in the forced target when its slot is Empty.
C1_LegalMovesAreOpen ==
    \A lm \in LastMoves :
        LET moves == get_legal_moves(grid, lm)
        IN \A k \in 1..Len(moves) :
            /\ grid.matrix[minigrid_pos(moves[k])][grid_pos(moves[k])] = Empty
            /\ grid.completed_minigrid[minigrid_pos(moves[k])] = Empty
            /\ (lm # None /\ grid.completed_minigrid[Target(lm)] = Empty)
                    => minigrid_pos(moves[k]) = Target(lm)

\* A board with a decided minigrid that still has Empty cells, an open forced
\* target with moves in it, and another open minigrid with Empty cells.
C1_Witness ==
    /\ last_move # None
    /\ grid.completed_minigrid[Target(last_move)] = Empty
    /\ Len(get_legal_moves(grid, last_move)) > 0
    /\ \E i \in Idx : grid.completed_minigrid[i] # Empty /\ HasEmptyCell(grid, i)
    /\ \E i \in Idx \ {Target(last_move)} :
            grid.completed_minigrid[i] = Empty /\ HasEmptyCell(grid, i)

\* The cells the forced-target rule allows, stated without scanning.
ReferenceMoves(g, lm) ==
    IF lm = None \/ g.completed_minigrid[Target(lm)] # Empty
    THEN {c \in Coords : /\ g.completed_minigrid[minigrid_pos(c)] = Empty
                         /\ g.matrix[minigrid_pos(c)][grid_pos(c)] = Empty}
    ELSE {c \in Coords : /\ minigrid_pos(c) = Target(lm)
                         /\ g.matrix[minigrid_pos(c)][grid_pos(c)] = Empty}

ScanKey(c) == 9 * minigrid_pos(c) + grid_pos(c)

\* C2: get_legal_moves returns exactly the reference set, each Coord once, in
\* ascending minigrid index then ascending cell index; all 81 cells on the
\* empty board with no last move.
C2_LegalMovesExact ==
    /\ \A lm \in LastMoves :
        LET moves == get_legal_moves(grid, lm)
        IN /\ Range(moves) = ReferenceMoves(grid, lm)
           /\ \A k \in 1..(Len(moves) - 1) : ScanKey(moves[k]) < ScanKey(moves[k + 1])
    /\ grid = GridDefault => Len(get_legal_moves(grid, None)) = 81

\* Scenario C: the last move targets a minigrid Cross has won, and the moves
\* returned span several minigrids.
C2_Witness ==
    /\ last_move # None
    /\ grid.completed_minigrid[Target(last_move)] = Cross
    /\ pc = "loop"
    /\ \E j, k \in 1..Len(get_legal_moves(grid, last_move)) :
            minigrid_pos(get_legal_moves(grid, last_move)[j])
                # minigrid_pos(get_legal_moves(grid, last_move)[k])

\* The forced target is completely filled and has no winner recorded.
FullUndecidedTarget(g, lm) ==
    /\ lm # None
    /\ g.completed_minigrid[Target(lm)] = Empty
    /\ ~HasEmptyCell(g, Target(lm))

\* C6: with the forced target full and undecided, get_legal_moves is empty and
\* play_match returns at that turn with winner = None, the board and the turn
\* count as they are, and without an answer taken from a strategy.
C6_FullTargetEndsMatch ==
    [][(pc = "loop" /\ FullUndecidedTarget(grid, last_move))
        => /\ get_legal_moves(grid, last_move) = << >>
           /\ pc' = "returned"
           /\ stats' = Some(MatchStats(None, number_turns, grid))
           /\ script' = script /\ free' = free]_vars

\* The match has returned a draw on a full undecided target although another
\* open minigrid still has Empty cells.
C6_Witness ==
    /\ pc = "returned"
    /\ stats # None /\ stats[1].winner = None
    /\ FullUndecidedTarget(grid, last_move)
    /\ \E i \in Idx : grid.completed_minigrid[i] = Empty /\ HasEmptyCell(grid, i)

----------------------------------------------------------------------------
(* Grid::set and Grid::update_grid called freely on a Grid.  Both are pub and  *)
(* neither checks its receiver, so any call sequence is a run of the program.  *)

\* The (coord, symbol) arguments tried: every symbol on the first two rows of
\* minigrid 0, and Circle or Empty on the main diagonal of minigrid 4.
GridInputs ==
    {<<Coord(0, 0, lx, ly), s>> : lx \in 0..2, ly \in 0..1, s \in Cell}
    \cup {<<Coord(1, 1, d, d), s>> : d \in 0..2, s \in {Circle, Empty}}

InitGrid ==
    /\ grid = GridDefault
    /\ op = "new"
    /\ last_move = None
    /\ current_player = Cross
    /\ number_turns = 0
    /\ pc = "grid"
    /\ stats = None
    /\ script = << >>
    /\ free = 0
    /\ won = None
    /\ NoSearch

CallSet ==
    /\ \E in \in GridInputs : grid' = set(grid, in[1], in[2])
    /\ op' = "set"
    /\ UNCHANGED <<last_move, pc, won, matchVars, mctsVars>>

CallUpdateGrid ==
    /\ grid' = update_grid(grid)
    /\ op' = "update_grid"
    /\ UNCHANGED <<last_move, pc, won, matchVars, mctsVars>>

NextGrid == CallSet \/ CallUpdateGrid

SpecGrid == InitGrid /\ [][NextGrid]_vars

\* C3: a meta-outcome slot that is Cross or Circle keeps that value over every
\* further set and update_grid call.
C3_SlotsAppendOnly ==
    [][\A i \in Idx : grid.completed_minigrid[i] # Empty
            => grid'.completed_minigrid[i] = grid.completed_minigrid[i]]_vars

\* Line k (in scan order) of a minigrid holds three equal non-Empty cells.
LineComplete(matrix, k) ==
    /\ matrix[Lines[k][1]] # Empty
    /\ matrix[Lines[k][2]] = matrix[Lines[k][1]]
    /\ matrix[Lines[k][3]] = matrix[Lines[k][1]]

\* C5: update_grid sets the slot of every minigrid holding a complete line to the
\* symbol of its first complete line in scan order, and leaves the slot of every
\* other minigrid as it was.
C5_UpdateRecordsFirstLine ==
    [][op' = "update_grid" =>
        \A i \in Idx :
            IF \E k \in 1..8 : LineComplete(grid.matrix[i], k)
            THEN \E k \in 1..8 :
                    /\ LineComplete(grid.matrix[i], k)
                    /\ \A j \in 1..(k - 1) : ~LineComplete(grid.matrix[i], j)
                    /\ grid'.completed_minigrid[i] = grid.matrix[i][Lines[k][1]]
            ELSE grid'.completed_minigrid[i] = grid.completed_minigrid[i]]_vars

\* update_grid has just run on a minigrid whose first row is Circle and second
\* row Cross, next to a minigrid that lost its line and kept its slot.
C5_Witness ==
    /\ op = "update_grid"
    /\ \A j \in 0..2 : grid.matrix[0][j] = Circle
    /\ \A j \in 3..5 : grid.matrix[0][j] = Cross
    /\ grid.completed_minigrid[0] = Circle
    /\ grid.matrix[4][4] = Empty
    /\ grid.completed_minigrid[4] = Circle

----------------------------------------------------------------------------
(* Grid::is_completed as a function of the meta-outcome array *)

InitWinner ==
    /\ grid \in {[GridDefault EXCEPT !.completed_minigrid = cm] : cm \in [Idx -> Cell]}
    /\ op = "new"
    /\ last_move = None
    /\ current_player = Cross
    /\ number_turns = 0
    /\ pc = "grid"
    /\ stats = None
    /\ script = << >>
    /\ free = 0
    /\ won = None
    /\ NoSearch

CallIsCompleted ==
    /\ op = "new"
    /\ won' = is_completed(grid)
    /\ op' = "is_completed"
    /\ UNCHANGED <<grid, last_move, pc, matchVars, mctsVars>>

NextWinner == CallIsCompleted

SpecWinner == InitWinner /\ [][NextWinner]_vars

\* C4: is_completed returns s only when some line of the meta-outcome array holds
\* s three times with s non-Empty, and returns None exactly when no line holds
\* three equal non-Empty slots.
C4_WinnerIsALine ==
    op = "is_completed" =>
        /\ won # None =>
            /\ won[1] # Empty
            /\ \E k \in 1..8 : \A n \in 1..3 : grid.completed_minigrid[Lines[k][n]] = won[1]
        /\ won = None <=> ~\E k \in 1..8 : LineComplete(grid.completed_minigrid, k)

\* Circle owns the anti-diagonal only, and a row mixes Cross with Empty.
C4_Witness ==
    /\ op = "is_completed"
    /\ won = Some(Circle)
    /\ \A k \in 1..7 : ~LineComplete(grid.completed_minigrid, k)
    /\ grid.completed_minigrid[0] = Cross
    /\ grid.completed_minigrid[1] = Cross
    /\ grid.completed_minigrid[8] = Empty

----------------------------------------------------------------------------
(* mcts.rs: Node, MCTSPlayer and its Player::select_move *)

\* The largest iteration budget (simulation_steps) tried.
MaxSteps == 3

\* A u32 is kept as its two bit fields, which are also the fields of the f32 it
\* may encode: high = bits 23..31 (sign, then the 8-bit biased exponent) and
\* low = bits 0..22 (the mantissa).
U32(high, low) == [high |-> high, low |-> low]

\* f32::to_bits of the rollout payoffs 1.0, -1.0 and 0.0: exponent 127, mantissa 0.
to_bits(r) == IF r = 1 THEN U32(127, 0) ELSE IF r = -1 THEN U32(256 + 127, 0) ELSE U32(0, 0)

\* AtomicU32::fetch_add: addition modulo 2^32.
wrapping_add(a, b) ==
    U32((a.high + b.high + (a.low + b.low) \div 2^23) % 2^9, (a.low + b.low) % 2^23)

\* A freshly allocated Node; parent is an Option of an index into nodes.
NewNode(state, parent, lm) ==
    [state |-> state, visits |-> 0, score |-> to_bits(0), children |-> << >>,
     parent |-> parent, last_move |-> lm]

Root == 1

\* Tree t after `for m in &legal_moves { ... children.push(child_node) }` on node n:
\* one child per move, its state written with the engine's own symbol.
Expanded(t, n, legal_moves) ==
    LET child(k) == NewNode(update_grid(set(t[n].state, legal_moves[k], symbol)),
                            Some(n), Some(legal_moves[k]))
        grown == t \o [k \in 1..Len(legal_moves) |-> child(k)]
    IN [grown EXCEPT ![n].children = @ \o [k \in 1..Len(legal_moves) |-> Len(t) + k]]

\* The value ucb() computes, by class: f32::INFINITY for an unvisited node, NaN
\* when ln(0) enters the square root or the score bits decode to NaN, and
\* otherwise a float whose class follows that of the decoded score.
ucb(n) ==
    LET visits == nodes[n].visits
        bits == nodes[n].score
        parent_visits == nodes[nodes[n].parent[1]].visits
        exponent == bits.high % 256
    IN IF visits = 0 THEN "inf"
       ELSE IF parent_visits = 0 THEN "nan"
       ELSE IF exponent = 255 /\ bits.low # 0 THEN "nan"
       ELSE IF exponent = 255 /\ bits.high \div 256 = 0 THEN "inf"
       ELSE IF exponent = 255 THEN "neginf"
       ELSE "finite"

UcbRank(n) == IF ucb(n) = "neginf" THEN 0 ELSE IF ucb(n) = "finite" THEN 1 ELSE 2

\* What max_by's reduction keeps of a and b (a before b): a when the comparison is
\* Greater, else b; partial_cmp with a NaN is None, taken as Equal.  The order
\* of two finite values is left open.
MaxBy(a, b) ==
    IF ucb(a) = "nan" \/ ucb(b) = "nan" THEN {b}
    ELSE IF UcbRank(a) > UcbRank(b) THEN {a}
    ELSE IF UcbRank(a) < UcbRank(b) THEN {b}
    ELSE IF ucb(a) = "finite" THEN {a, b}
    ELSE {b}

\* par_iter().max_by(..): rayon splits the slice into spans and reduces them
\* pairwise.  Reduce is the set of the triples <<lo, len, m>> with m a result of
\* reducing children[lo..lo+len-1] under some way of splitting it, for every
\* span of at most len children.
RECURSIVE Reduce(_, _)
Reduce(children, len) ==
    IF len = 1 THEN {<<lo, 1, children[lo]>> : lo \in 1..Len(children)}
    ELSE LET shorter == Reduce(children, len - 1)
             results(lo, l) == {s[3] : s \in {t \in shorter : t[1] = lo /\ t[2] = l}}
         IN shorter \cup UNION {UNION {UNION {
                {<<lo, len, m>> : m \in MaxBy(a, b)}
                    : b \in results(lo + p, len - p)} : a \in results(lo, p)}
                    : <<lo, p>> \in (1..(Len(children) - len + 1)) \X (1..(len - 1))}

\* The nodes select_best_child may return for a node with children.  The atomics
\* of the children are read as one snapshot.
select_best_child(n) ==
    LET children == nodes[n].children
    IN {s[3] : s \in {t \in Reduce(children, Len(children)) : t[2] = Len(children)}}

Payoff_ignores_symbol(w) == IF w # Empty THEN 1 ELSE 0

\* `match winner { w if w == self.symbol => 1.0, w if w != Cell::Empty => -1.0, _ => 0.0 }`
Payoff(w) == IF w = symbol THEN 1 ELSE IF w # Empty THEN -1 ELSE 0

\* simulate(): the payoffs a random rollout from sim_state can end with.
RECURSIVE Rollout(_, _, _)
Rollout(sim_state, player, lm) ==
    LET winner == is_completed(sim_state)
        legal_moves == get_legal_moves(sim_state, lm)
    IN IF winner # None
       THEN {Payoff(winner[1])}
       ELSE IF legal_moves = << >> THEN {0}
       ELSE UNION {Rollout(update_grid(set(sim_state, legal_moves[k], player)),
                           Other(player), Some(legal_moves[k]))
                   : k \in 1..Len(legal_moves)}

simulate(state) == Rollout(state, symbol, None)

max_by_key_visits_first(children) ==
    children[CHOOSE k \in 1..Len(children) :
        /\ \A j \in 1..Len(children) : nodes[children[j]].visits <= nodes[children[k]].visits
        /\ \A j \in 1..(k - 1) : nodes[children[j]].visits < nodes[children[k]].visits]

\* iter().max_by_key(|child| visits): the last of the children with most visits.
max_by_key_visits(children) ==
    children[CHOOSE k \in 1..Len(children) :
        /\ \A j \in 1..Len(children) : nodes[children[j]].visits <= nodes[children[k]].visits
        /\ \A j \in (k + 1)..Len(children) : nodes[children[j]].visits < nodes[children[k]].visits]

InitialLegalMoves_ignores_last_move(g, lm) == get_legal_moves(g, None)

InitialLegalMoves(g, lm) == get_legal_moves(g, lm)

NoLegalMoves_unchecked(legal_moves) == FALSE

\* `if initial_legal_moves.is_empty() { panic!(..) }`
NoLegalMoves(legal_moves) == Len(legal_moves) = 0

AllIterationsDone_no_join == TRUE

\* into_par_iter().for_each(..) returns when every iteration has run to its end.
AllIterationsDone == \A it \in BagToSet(iter) : it.pc = "done"

\* The symbol whose turn number k of a match is: Cross moves first.
PlayerOfTurn(k) == IF k % 2 = 1 THEN Cross ELSE Circle

\* The lines of play after which the player to move, an MCTSPlayer built with
\* that player's symbol, is asked for a move.
SearchInputs == {ScriptFullTarget, ScriptLastCells}

InitSearch ==
    /\ grid = GridDefault
    /\ last_move = None
    /\ current_player = Cross
    /\ number_turns = 0
    /\ pc = "loop"
    /\ stats = None
    /\ script \in SearchInputs
    /\ free = 0
    /\ op = "new"
    /\ won = None
    /\ symbol = PlayerOfTurn(Len(script) + 1)
    /\ simulation_steps \in 0..MaxSteps
    /\ nodes = << >>
    /\ initial_legal_moves = << >>
    /\ iter = EmptyBag
    /\ ret = None
    /\ simulated = EmptyBag
    /\ workers = EmptyBag

\* The locals of one iteration of the closure passed to for_each.  The closure
\* ignores its index, so the iterations differ by their state alone; a local is
\* kept only while the code can still read it.
Iteration(at, current_node, result, current) ==
    [pc |-> at, current_node |-> current_node, result |-> result, current |-> current]

Selecting == Iteration("select", Root, 0, 0)

Backpropagating_stops_below_root(t, result, n) ==
    IF t[n].parent = None \/ t[t[n].parent[1]].parent = None
    THEN Iteration("done", 0, 0, 0)
    ELSE Iteration("backpropagate", 0, result, n)

\* backpropagate's loop with `current` at node n of tree t: it ends when n has no parent.
Backpropagating(t, result, n) ==
    IF t[n].parent = None
    THEN Iteration("done", 0, 0, 0)
    ELSE Iteration("backpropagate", 0, result, n)

\* (0..simulation_steps).into_par_iter(): n iterations about to start.
Spawn(n) == IF n = 0 THEN EmptyBag ELSE [it \in {Selecting} |-> n]

\* select_move, called on the board and last move the line of play has led to,
\* up to the panic of line 166.
BeginPanic ==
    /\ pc = "loop"
    /\ script = << >>
    /\ NoLegalMoves(InitialLegalMoves(grid, last_move))
    /\ nodes' = << NewNode(grid, None, None) >>
    /\ pc' = "panicked"
    /\ UNCHANGED <<grid, last_move, op, won, matchVars, symbol, simulation_steps,
                   initial_legal_moves, iter, ret, simulated, workers>>

\* select_move up to the start of the parallel iterations: the root is created
\* and expanded with every initial legal move.
BeginSearch ==
    /\ pc = "loop"
    /\ script = << >>
    /\ ~NoLegalMoves(InitialLegalMoves(grid, last_move))
    /\ initial_legal_moves' = InitialLegalMoves(grid, last_move)
    /\ nodes' = Expanded(<< NewNode(grid, None, None) >>, Root,
                         InitialLegalMoves(grid, last_move))
    /\ iter' = Spawn(simulation_steps)
    /\ pc' = "iterating"
    /\ UNCHANGED <<grid, last_move, op, won, matchVars, symbol, simulation_steps, ret,
                   simulated, workers>>

searchFrame == <<grid, last_move, pc, op, won, matchVars, symbol, simulation_steps,
                 initial_legal_moves, ret>>

\* The bag iter with iteration `it` moved on to state `next`.
Step(it, next) == (iter (-) SetToBag({it})) (+) SetToBag({next})

\* One turn of the selection loop: leave it at a node without children, else
\* descend to the child select_best_child returns.
Select(it) ==
    /\ pc = "iterating"
    /\ it.pc = "select"
    /\ IF nodes[it.current_node].children = << >>
       THEN iter' = Step(it, [it EXCEPT !.pc = "leaf"])
       ELSE \E best \in select_best_child(it.current_node) :
                iter' = Step(it, [it EXCEPT !.current_node = best])
    /\ UNCHANGED <<nodes, searchFrame, simulated>>

\* Lines 207-210: the leaf's legal moves and the load of its visit count.
CheckLeaf(it) ==
    /\ pc = "iterating"
    /\ it.pc = "leaf"
    /\ LET legal_moves == get_legal_moves(nodes[it.current_node].state,
                                          nodes[it.current_node].last_move)
       IN iter' = Step(it, [it EXCEPT !.pc =
                    IF nodes[it.current_node].visits = 0 /\ legal_moves # << >>
                    THEN "expand" ELSE "pick"])
    /\ UNCHANGED <<nodes, searchFrame, simulated>>

\* Lines 212-227: the children are pushed under the node's lock.
Expand(it) ==
    /\ pc = "iterating"
    /\ it.pc = "expand"
    /\ nodes' = Expanded(nodes, it.current_node,
                         get_legal_moves(nodes[it.current_node].state,
                                         nodes[it.current_node].last_move))
    /\ iter' = Step(it, [it EXCEPT !.pc = "pick"])
    /\ UNCHANGED <<searchFrame, simulated>>

\* Lines 231-247: node_to_simulate is picked under the lock, the rollout is
\* played and backpropagate starts at the simulated node.
Pick(it) ==
    /\ pc = "iterating"
    /\ it.pc = "pick"
    /\ LET children == nodes[it.current_node].children
       IN \E node_to_simulate \in
                (IF children = << >> THEN {it.current_node} ELSE Range(children)) :
            \E result \in simulate(nodes[node_to_simulate].state) :
                /\ iter' = Step(it, Backpropagating(nodes, result, node_to_simulate))
                /\ simulated' = simulated (+) SetToBag({[node |-> node_to_simulate,
                                                          result |-> result]})
    /\ UNCHANGED <<nodes, searchFrame>>

\* parent.visits.fetch_add(1); the count stays far below the u32 range.
BackpropagateVisits(it) ==
    /\ pc = "iterating"
    /\ it.pc = "backpropagate"
    /\ LET parent == nodes[it.current].parent[1]
       IN nodes' = [nodes EXCEPT ![parent].visits = @ + 1]
    /\ iter' = Step(it, [it EXCEPT !.pc = "backpropagate_score"])
    /\ UNCHANGED <<searchFrame, simulated>>

\* parent.score.fetch_add(result.to_bits()); current = parent
BackpropagateScore(it) ==
    /\ pc = "iterating"
    /\ it.pc = "backpropagate_score"
    /\ LET parent == nodes[it.current].parent[1]
       IN /\ nodes' = [nodes EXCEPT ![parent].score = wrapping_add(@, to_bits(it.result))]
          /\ iter' = Step(it, Backpropagating(nodes, it.result, parent))
    /\ UNCHANGED <<searchFrame, simulated>>

\* Lines 250-263: the final selection among the root's children, or the fallback.
Finish ==
    /\ pc = "iterating"
    /\ AllIterationsDone
    /\ LET children == nodes[Root].children
       IN IF children # << >> /\ nodes[max_by_key_visits(children)].last_move # None
          THEN ret' = nodes[max_by_key_visits(children)].last_move /\ pc' = "returned"
          ELSE IF initial_legal_moves # << >>
          THEN ret' = Some(initial_legal_moves[1]) /\ pc' = "returned"
          ELSE ret' = None /\ pc' = "panicked"
    /\ UNCHANGED <<grid, last_move, op, won, matchVars, symbol, simulation_steps,
                   nodes, initial_legal_moves, iter, simulated, workers>>

NextSearch ==
    \/ ScriptedTurn
    \/ BeginPanic
    \/ BeginSearch
    \/ \E it \in BagToSet(iter) : Select(it) /\ UNCHANGED workers
    \/ \E it \in BagToSet(iter) : CheckLeaf(it) /\ UNCHANGED workers
    \/ \E it \in BagToSet(iter) : Expand(it) /\ UNCHANGED workers
    \/ \E it \in BagToSet(iter) : Pick(it) /\ UNCHANGED workers
    \/ \E it \in BagToSet(iter) : BackpropagateVisits(it) /\ UNCHANGED workers
    \/ \E it \in BagToSet(iter) : BackpropagateScore(it) /\ UNCHANGED workers
    \/ Finish

SpecSearch == InitSearch /\ [][NextSearch]_vars

----------------------------------------------------------------------------
(* Claims about MCTSPlayer::select_move, under SpecSearch *)

\* select_move has been called on (grid, last_move): the line of play is over
\* and the call has gone past its first step.
Called == pc \in {"iterating", "returned", "panicked"}

\* The visit counts of the root's children, in the order of the children.
RootVisits == [k \in 1..Len(nodes[Root].children) |-> nodes[nodes[Root].children[k]].visits]

\* C7: when get_legal_moves(board, last_move) is empty at the call, select_move
\* panics: it returns no Coord, no iteration is ever spawned and the tree is
\* the bare root, never visited.
C7_EmptyMovesPanic ==
    (Called /\ get_legal_moves(grid, last_move) = << >>) =>
        /\ pc = "panicked"
        /\ ret = None
        /\ iter = EmptyBag
        /\ Len(nodes) = 1
        /\ nodes[Root].children = << >>
        /\ nodes[Root].visits = 0

\* The call on a full, undecided target minigrid, made with a positive budget.
C7_Witness ==
    /\ pc = "panicked"
    /\ FullUndecidedTarget(grid, last_move)
    /\ simulation_steps > 0
    /\ symbol = Circle

\* C8: whatever the budget, the rollouts and the interleaving of the
\* iterations, a call made with a non-empty legal-move list ends only by
\* returning, and the Coord returned is one of get_legal_moves(board, last_move).
C8_ReturnsLegalMove ==
    /\ (Called /\ get_legal_moves(grid, last_move) # << >>) => pc # "panicked"
    /\ pc = "returned" =>
        /\ ret # None
        /\ ret[1] \in Range(get_legal_moves(grid, last_move))
    /\ ret # None => pc = "returned"

\* A return after two iterations, on a board where last_move narrows the legal
\* moves to one minigrid.
C8_Witness ==
    /\ pc = "returned"
    /\ ret # None
    /\ simulation_steps = 2
    /\ nodes[Root].visits = 2
    /\ Len(get_legal_moves(grid, last_move)) < Len(get_legal_moves(grid, None))

\* C9: at the return every one of the simulation_steps iterations has run to
\* the end of its backpropagation (each has been counted at the root), and the
\* move returned is the recorded move of a root child whose visit count is the
\* largest among the root's children.
C9_MostVisitedAfterJoin ==
    pc = "returned" =>
        /\ BagCardinality(iter) = simulation_steps
        /\ \A it \in BagToSet(iter) : it.pc = "done"
        /\ nodes[Root].visits = simulation_steps
        /\ \E k \in 1..Len(nodes[Root].children) :
            /\ ret = nodes[nodes[Root].children[k]].last_move
            /\ \A j \in 1..Len(nodes[Root].children) : RootVisits[j] <= RootVisits[k]

\* A return after three iterations where the visit counts of the root's
\* children differ and the most visited child is the first, not the last.
C9_Witness ==
    /\ pc = "returned"
    /\ simulation_steps = 3
    /\ RootVisits = <<2, 1>>
    /\ ret = nodes[nodes[Root].children[1]].last_move
    /\ ret # nodes[nodes[Root].children[2]].last_move

\* C10 as stated: when the root has no children once the iterations are over,
\* in particular with a budget of zero, the first legal move is returned.
C10_FallbackFirstMove ==
    (pc = "returned" /\ (nodes[Root].children = << >> \/ simulation_steps = 0)) =>
        ret = Some(get_legal_moves(grid, last_move)[1])

\* C10 amended: at the return the root has one child per legal move, in the
\* order of the list, so the fallback is never taken; with a budget of zero
\* the move returned is the last entry of the legal-move list.
C10_ZeroBudgetLastMove ==
    pc = "returned" =>
        LET legal_moves == get_legal_moves(grid, last_move)
        IN /\ Len(nodes[Root].children) = Len(legal_moves)
           /\ legal_moves # << >>
           /\ \A k \in 1..Len(legal_moves) :
                nodes[nodes[Root].children[k]].last_move = Some(legal_moves[k])
           /\ simulation_steps = 0 => ret = Some(legal_moves[Len(legal_moves)])

\* A return with a budget of zero and several legal moves: no child was ever
\* visited and the move is not the first of the list.
C10_Witness ==
    /\ pc = "returned"
    /\ simulation_steps = 0
    /\ Len(get_legal_moves(grid, last_move)) >= 2
    /\ \A k \in 1..Len(RootVisits) : RootVisits[k] = 0
    /\ ret # Some(get_legal_moves(grid, last_move)[1])

----------------------------------------------------------------------------
(* Claims about the statistics of the tree, under SpecSearch *)

\* The strict ancestors of node n.
RECURSIVE Ancestors(_)
Ancestors(n) ==
    IF nodes[n].parent = None THEN {}
    ELSE {nodes[n].parent[1]} \cup Ancestors(nodes[n].parent[1])

\* The rollouts whose simulated node is a strict descendant of node n: the ones
\* backpropagate carries into n.
RolloutsBelow(n) == {r \in BagToSet(simulated) : n \in Ancestors(r.node)}

\* r1 + ... + rk for the rollouts of the set `rollouts`, with their multiplicity.
RECURSIVE SumOfResults(_)
SumOfResults(rollouts) ==
    IF rollouts = {} THEN 0
    ELSE LET r == CHOOSE x \in rollouts : TRUE
         IN r.result * CopiesIn(r, simulated) + SumOfResults(rollouts \ {r})

\* k, the number of rollouts of the set `rollouts`, with their multiplicity.
RECURSIVE NumberOfResults(_)
NumberOfResults(rollouts) ==
    IF rollouts = {} THEN 0
    ELSE LET r == CHOOSE x \in rollouts : TRUE
         IN CopiesIn(r, simulated) + NumberOfResults(rollouts \ {r})

ResultSum(n) == SumOfResults(RolloutsBelow(n))

ResultCount(n) == NumberOfResults(RolloutsBelow(n))

RECURSIVE Log2(_)
Log2(n) == IF n < 2 THEN 0 ELSE 1 + Log2(n \div 2)

\* The bit pattern of the f32 equal to the integer s (exact for |s| < 2^24).
F32OfInt(s) ==
    IF s = 0 THEN U32(0, 0)
    ELSE LET m == IF s < 0 THEN -s ELSE s
             e == Log2(m)
         IN U32((IF s < 0 THEN 256 ELSE 0) + 127 + e, (m - 2^e) * 2^(23 - e))

\* f32::from_bits(bits) = s, for an integer s: the encoding is unique but for -0.0.
DecodesTo(bits, s) == bits = F32OfInt(s) \/ (s = 0 /\ bits = U32(256, 0))

\* C11: once the iterations are over, the score of every node, decoded as f32,
\* is the sum of the results of the rollouts backpropagated into it (so that
\* score / visits is their mean).
C11_ScoreIsSumOfResults ==
    (pc \in {"iterating", "returned"} /\ \A it \in BagToSet(iter) : it.pc = "done") =>
        \A n \in 1..Len(nodes) : DecodesTo(nodes[n].score, ResultSum(n))

\* Every iteration of the call has run to its end.
Quiescent == pc \in {"iterating", "returned"} /\ \A it \in BagToSet(iter) : it.pc = "done"

RECURSIVE SumOfVisits(_, _)
SumOfVisits(children, k) ==
    IF k > Len(children) THEN 0
    ELSE nodes[children[k]].visits + SumOfVisits(children, k + 1)

\* C13: once all iterations are over no visit increment has been lost: the
\* root has been visited simulation_steps times, every node as many times as
\* rollouts were played from its strict descendants, hence at least as often
\* as all its children together.
C13_NoVisitLost ==
    Quiescent =>
        /\ BagCardinality(simulated) = simulation_steps
        /\ nodes[Root].visits = simulation_steps
        /\ \A n \in 1..Len(nodes) :
            /\ nodes[n].visits = ResultCount(n)
            /\ nodes[n].visits >= SumOfVisits(nodes[n].children, 1)

\* Three iterations are over; two of them went through the same root child and
\* one of these through a child of it.
C13_Witness ==
    /\ Quiescent
    /\ simulation_steps = 3
    /\ \E n, m \in 2..Len(nodes) :
        /\ nodes[n].parent = Some(Root)
        /\ nodes[m].parent = Some(n)
        /\ nodes[n].visits = 2
        /\ nodes[m].visits = 1

\* C14: each node is expanded at most once: its child list never holds two
\* children with the same recorded move, nor more children than
\* get_legal_moves(node.state, node.last_move) has entries.
C14_ExpandedAtMostOnce ==
    pc \in {"iterating", "returned"} =>
        \A n \in 1..Len(nodes) :
            LET children == nodes[n].children
            IN /\ \A j, k \in 1..Len(children) :
                    nodes[children[j]].last_move = nodes[children[k]].last_move => j = k
               /\ Len(children) <= Len(get_legal_moves(nodes[n].state, nodes[n].last_move))

\* The legal moves that win the match at once for the engine's symbol.
WinningMoves(g, lm) ==
    {m \in Range(get_legal_moves(g, lm)) :
        is_completed(update_grid(set(g, m, symbol))) = Some(symbol)}

\* C15: on a board with an immediately winning legal move, a call made with
\* the largest budget returns a winning move.
C15_ReturnsWinningMove ==
    (pc = "returned" /\ simulation_steps = MaxSteps /\ WinningMoves(grid, last_move) # {}) =>
        ret[1] \in WinningMoves(grid, last_move)

\* The number of cells of the board that hold a symbol.
MovesPlayed(g) == Cardinality({c \in Coords : g.matrix[minigrid_pos(c)][grid_pos(c)] # Empty})

\* C17: whenever an iteration changes the child list of a node, the node was a
\* leaf never visited and with legal moves, and its children are now exactly
\* one fresh node per entry of get_legal_moves(leaf.state, leaf.last_move), in
\* order: the move recorded, the leaf as parent, visits 0, score 0.0, and the
\* leaf's board with the engine's symbol written into the move's cell and the
\* outcomes refreshed.
C17_ExpansionBuildsChildren ==
    [][pc = "iterating" =>
        \A n \in 1..Len(nodes) :
            nodes'[n].children # nodes[n].children =>
                LET legal_moves == get_legal_moves(nodes[n].state, nodes[n].last_move)
                    children == nodes'[n].children
                IN /\ nodes[n].visits = 0
                   /\ legal_moves # << >>
                   /\ Len(children) = Len(legal_moves)
                   /\ \A k \in 1..Len(children) :
                        /\ children[k] > Len(nodes)
                        /\ nodes'[children[k]] =
                            [state |-> update_grid(set(nodes[n].state, legal_moves[k], symbol)),
                             visits |-> 0, score |-> U32(0, 0), children |-> << >>,
                             parent |-> Some(n), last_move |-> Some(legal_moves[k])]]_vars

\* C18: a selecting iteration leaves the selection loop only at a node without
\* children, and descends only to a child of its node; when one of the
\* children has never been visited, the child it descends to has never been
\* visited either.
C18_UnvisitedChildFirst ==
    [][\A it \in BagToSet(iter) :
        (pc = "iterating" /\ it.pc = "select") =>
            LET children == nodes[it.current_node].children
            IN /\ iter' = Step(it, [it EXCEPT !.pc = "leaf"]) => children = << >>
               /\ \A best \in 1..Len(nodes) \ {it.current_node} :
                    iter' = Step(it, [it EXCEPT !.current_node = best]) =>
                        /\ best \in Range(children)
                        /\ (\E c \in Range(children) : nodes[c].visits = 0)
                                => nodes[best].visits = 0]_vars

----------------------------------------------------------------------------
(* MCTSPlayer::simulate, one turn of its loop at a time.  The call is made on *)
(* the board of a node; grid, last_move and current_player hold the locals    *)
(* sim_state, last_move and current_player, and number_turns counts the       *)
(* rollout moves played.                                                      *)

\* The lines of play that lead to the board and recorded move of the node.
SimulateInputs == {ScriptWin, ScriptEndgame, ScriptEndgameWide, ScriptLastCells}

InitSimulate ==
    /\ grid = GridDefault
    /\ last_move = None
    /\ current_player = Cross
    /\ number_turns = 0
    /\ pc = "loop"
    /\ stats = None
    /\ script \in SimulateInputs
    /\ free = 0
    /\ op = "new"
    /\ won = None
    /\ symbol \in {Cross, Circle}
    /\ simulation_steps = 0
    /\ nodes = << >>
    /\ initial_legal_moves = << >>
    /\ iter = EmptyBag
    /\ ret = None
    /\ simulated = EmptyBag
    /\ workers = EmptyBag

\* Lines 97-100: simulate is entered with the board of the node; the node's
\* recorded move is not passed on.
BeginSimulate ==
    /\ pc \in {"loop", "returned"}
    /\ script = << >>
    /\ nodes = << >>
    /\ nodes' = << NewNode(grid, None, last_move) >>
    /\ last_move' = None
    /\ current_player' = symbol
    /\ number_turns' = 0
    /\ pc' = "simulate"
    /\ UNCHANGED <<grid, stats, script, free, op, won, symbol, simulation_steps,
                   initial_legal_moves, iter, ret, simulated, workers>>

\* simulate returns `result` for the node.
Returned(result) ==
    /\ simulated' = simulated (+) SetToBag({[node |-> Root, result |-> result]})
    /\ pc' = "simulated"
    /\ UNCHANGED <<grid, last_move, current_player, number_turns>>

\* Lines 103-132: one turn of the loop.
SimulateTurn ==
    /\ pc = "simulate"
    /\ \E winner \in {is_completed(grid)} :
       \E legal_moves \in {get_legal_moves(grid, last_move)} :
          IF winner # None THEN Returned(Payoff(winner[1]))
          ELSE IF legal_moves = << >> THEN Returned(0)
          ELSE \E k \in 1..Len(legal_moves) :
                /\ grid' = update_grid(set(grid, legal_moves[k], current_player))
                /\ last_move' = Some(legal_moves[k])
                /\ current_player' = Other(current_player)
                /\ number_turns' = number_turns + 1
                /\ UNCHANGED <<pc, simulated>>
    /\ UNCHANGED <<stats, script, free, op, won, symbol, simulation_steps, nodes,
                   initial_legal_moves, iter, ret, workers>>

NextSimulate == ScriptedTurn \/ BeginSimulate \/ SimulateTurn

\* The rollout has no step that waits: its loop keeps running.
SpecSimulate == InitSimulate /\ [][NextSimulate]_vars /\ WF_vars(NextSimulate)

\* C19: every rollout move is legal for the move that produced the board it is
\* played on (the recorded move of the simulated node for the first rollout
\* move, the previous rollout move after that), and the symbols written
\* alternate, starting from the engine's symbol.
C19_RolloutRespectsTarget ==
    [][(pc = "simulate" /\ grid' # grid) =>
        LET produced == IF number_turns = 0 THEN nodes[Root].last_move ELSE last_move
            mover == IF number_turns % 2 = 0 THEN symbol ELSE Other(symbol)
        IN /\ last_move'[1] \in Range(get_legal_moves(grid, produced))
           /\ grid' = update_grid(set(grid, last_move'[1], mover))]_vars

\* C20: simulate terminates: each rollout move fills one Empty cell of the
\* board, so at most 81 are played; the loop ends as soon as the board has a
\* winner, without a move if the starting board has one; the value returned is
\* +1 exactly when is_completed is the engine's symbol at the end, -1 exactly
\* when it is the other symbol, and 0 exactly when there is no winner and
\* get_legal_moves is empty.
C20_SimulatePayoff ==
    /\ [](pc \in {"simulate", "simulated"} =>
            /\ number_turns = MovesPlayed(grid) - MovesPlayed(nodes[Root].state)
            /\ number_turns <= 81)
    /\ [][(pc = "simulate" /\ is_completed(grid) # None) =>
            (pc' = "simulated" /\ grid' = grid)]_vars
    /\ [](pc = "simulated" =>
            \E r \in {-1, 0, 1} :
                /\ simulated = SetToBag({[node |-> Root, result |-> r]})
                /\ r \in simulate(nodes[Root].state)
                /\ r = 1 <=> is_completed(grid) = Some(symbol)
                /\ r = -1 <=> is_completed(grid) = Some(Other(symbol))
                /\ r = 0 <=> (is_completed(grid) = None
                                /\ get_legal_moves(grid, last_move) = << >>)
                /\ is_completed(nodes[Root].state) # None =>
                        (number_turns = 0 /\ grid = nodes[Root].state))
    /\ <>(pc = "simulated")

\* A rollout that the other symbol won after several moves.
C20_Witness ==
    /\ pc = "simulated"
    /\ number_turns >= 3
    /\ simulated = SetToBag({[node |-> Root, result |-> -1]})
    /\ is_completed(nodes[Root].state) = None

----------------------------------------------------------------------------
(* play_match played to its end: once the line of play is over, each strategy *)
(* answers with any entry of the legal_moves it is given.                      *)

MatchInputs == {ScriptFullTarget, ScriptWin, ScriptEndgame, ScriptLastCells}

InitMatch ==
    /\ grid = GridDefault
    /\ last_move = None
    /\ current_player = Cross
    /\ number_turns = 0
    /\ pc = "loop"
    /\ stats = None
    /\ script \in MatchInputs
    /\ free = 0
    /\ op = "new"
    /\ won = None
    /\ NoSearch

StrategyTurn ==
    /\ pc = "loop"
    /\ script = << >>
    /\ \E coord \in Range(get_legal_moves(grid, last_move)) : Turn(coord)
    /\ UNCHANGED <<script, free, mctsVars>>

NextMatch == ScriptedTurn \/ StrategyTurn \/ NoMoves

\* Both strategies return, so the loop of play_match keeps running.
SpecMatch == InitMatch /\ [][NextMatch]_vars /\ WF_vars(NextMatch)

\* C16: play_match terminates.  While it runs the board has no winner and the
\* player to move alternates from Cross; every turn writes the mover's symbol
\* into one Empty cell (so there are at most 81 turns) and refreshes the
\* outcomes; the match returns with winner Some(s) right after the move that
\* makes is_completed return s, or with winner None at the first turn whose
\* legal-move list is empty.
C16_MatchTerminates ==
    /\ [](pc = "loop" =>
            /\ is_completed(grid) = None
            /\ stats = None
            /\ current_player = PlayerOfTurn(MovesPlayed(grid) + 1))
    /\ [][grid' # grid =>
            /\ pc = "loop"
            /\ is_completed(grid) = None
            /\ last_move'[1] \in Range(get_legal_moves(grid, last_move))
            /\ grid' = update_grid(set(grid, last_move'[1], current_player))
            /\ MovesPlayed(grid') = MovesPlayed(grid) + 1
            /\ IF is_completed(grid') # None
               THEN /\ pc' = "returned"
                    /\ stats'[1].winner = Some(current_player)
                    /\ is_completed(grid') = Some(current_player)
               ELSE pc' = "loop" /\ current_player' = Other(current_player)]_vars
    /\ [](pc = "returned" =>
            /\ stats # None
            /\ stats[1].final_grid = grid
            /\ MovesPlayed(grid) <= 81
            /\ IF stats[1].winner = None
               THEN is_completed(grid) = None /\ get_legal_moves(grid, last_move) = << >>
               ELSE is_completed(grid) = stats[1].winner)
    /\ <>(pc = "returned")

\* A match that ended with Circle's win on the fortieth move, chosen by the
\* strategy itself after the line of play.
C16_Witness ==
    /\ pc = "returned"
    /\ script = << >>
    /\ stats[1].winner = Some(Circle)
    /\ MovesPlayed(grid) = 40
    /\ current_player = Circle

\* ---------------------------------------------------------------------------
\* The iterations on the threads of the rayon pool
\* ---------------------------------------------------------------------------

\* The threads of the pool.
Threads == 3

PoolInputs == {ScriptLastCells}

InitPool ==
    /\ grid = GridDefault
    /\ last_move = None
    /\ current_player = Cross
    /\ number_turns = 0
    /\ pc = "loop"
    /\ stats = None
    /\ script \in PoolInputs
    /\ free = 0
    /\ op = "new"
    /\ won = None
    /\ symbol = PlayerOfTurn(Len(script) + 1)
    /\ simulation_steps \in 1..MaxSteps
    /\ nodes = << >>
    /\ initial_legal_moves = << >>
    /\ iter = EmptyBag
    /\ ret = None
    /\ simulated = EmptyBag
    /\ workers = EmptyBag

\* A std::sync::Mutex of a child list is held from one step to the next only
\* by select_best_child, whose guard of line 80 lives across the par_iter of
\* lines 85-91.
Locked(n) ==
    \E w \in BagToSet(workers) : \E i \in 1..Len(w) :
        w[i].pc = "reduce" /\ w[i].current_node = n

\* The number of iterations equal to `it` among the call stacks ws.
RECURSIVE Frames(_, _)
Frames(ws, it) ==
    IF ws = {} THEN 0
    ELSE LET w == CHOOSE x \in ws : TRUE
         IN CopiesIn(w, workers) * Cardinality({i \in 1..Len(w) : w[i] = it})
            + Frames(ws \ {w}, it)

\* The iterations of the range that no thread has taken yet.
Unstarted == CopiesIn(Selecting, iter) - Frames(BagToSet(workers), Selecting)

\* The call stack w with its innermost iteration moved on to `next`.
Run(w, next) == (workers (-) SetToBag({w})) (+) SetToBag({<<next>> \o Tail(w)})

\* The innermost iteration of w takes the step iter' records.
Ran(w) == \E next \in BagToSet(iter') :
            /\ iter' = Step(Head(w), next)
            /\ workers' = Run(w, next)

\* An idle thread takes an iteration of the range.
Start ==
    /\ pc = "iterating"
    /\ Unstarted > 0
    /\ BagCardinality(workers) < Threads
    /\ workers' = workers (+) SetToBag({<<Selecting>>})
    /\ UNCHANGED <<nodes, iter, searchFrame, simulated>>

\* Lines 196-199: the child list is locked, tested and unlocked.
HasChildren(w) ==
    /\ pc = "iterating"
    /\ Head(w).pc = "select"
    /\ ~Locked(Head(w).current_node)
    /\ iter' = Step(Head(w), [Head(w) EXCEPT !.pc =
                    IF nodes[Head(w).current_node].children = << >>
                    THEN "leaf" ELSE "best"])
    /\ Ran(w)
    /\ UNCHANGED <<nodes, searchFrame, simulated>>

\* Line 80: select_best_child locks the child list and keeps the guard.
LockChildren(w) ==
    /\ pc = "iterating"
    /\ Head(w).pc = "best"
    /\ ~Locked(Head(w).current_node)
    /\ iter' = Step(Head(w), [Head(w) EXCEPT !.pc = "reduce"])
    /\ Ran(w)
    /\ UNCHANGED <<nodes, searchFrame, simulated>>

\* Lines 85-91 on a thread that waits for a half of the par_iter another
\* thread has stolen: a rayon thread that waits runs other jobs of the pool, so
\* it takes an iteration of the range from the queue of a thread that runs one
\* and runs it on top of select_best_child, whose guard it still holds.  The
\* half is stolen by an idle thread, and the iteration taken lies in the queue
\* of another thread that runs one.
Adopt(w) ==
    /\ pc = "iterating"
    /\ Head(w).pc = "reduce"
    /\ Len(nodes[Head(w).current_node].children) >= 2
    /\ Unstarted > 0
    /\ BagCardinality(workers) >= 2
    /\ BagCardinality(workers) < Threads
    /\ workers' = (workers (-) SetToBag({w})) (+) SetToBag({<<Selecting>> \o w})
    /\ UNCHANGED <<nodes, iter, searchFrame, simulated>>

\* Lines 85-92: the reduction is complete, the guard is dropped and the loop
\* of line 194 goes on at the child returned.
Reduced(w) ==
    /\ pc = "iterating"
    /\ Head(w).pc = "reduce"
    /\ \E best \in select_best_child(Head(w).current_node) :
            iter' = Step(Head(w), [Head(w) EXCEPT !.pc = "select", !.current_node = best])
    /\ Ran(w)
    /\ UNCHANGED <<nodes, searchFrame, simulated>>

\* Lines 212 and 232 lock the child list of current_node.
PoolLocking(w) ==
    /\ ~Locked(Head(w).current_node)
    /\ Expand(Head(w)) \/ Pick(Head(w))
    /\ Ran(w)

\* The steps of an iteration that take no lock.
PoolLockFree(w) ==
    /\ CheckLeaf(Head(w)) \/ BackpropagateVisits(Head(w)) \/ BackpropagateScore(Head(w))
    /\ Ran(w)

\* The closure returns: the thread goes back to what it was running before.
Retire(w) ==
    /\ pc = "iterating"
    /\ Head(w).pc = "done"
    /\ workers' = (workers (-) SetToBag({w}))
                    (+) (IF Tail(w) = << >> THEN EmptyBag ELSE SetToBag({Tail(w)}))
    /\ UNCHANGED <<nodes, iter, searchFrame, simulated>>

\* for_each returns once every iteration has returned.
PoolFinish == workers = EmptyBag /\ Finish

NextPool ==
    \/ ScriptedTurn
    \/ BeginSearch
    \/ Start
    \/ \E w \in BagToSet(workers) : HasChildren(w)
    \/ \E w \in BagToSet(workers) : LockChildren(w)
    \/ \E w \in BagToSet(workers) : Adopt(w)
    \/ \E w \in BagToSet(workers) : Reduced(w)
    \/ \E w \in BagToSet(workers) : PoolLocking(w)
    \/ \E w \in BagToSet(workers) : PoolLockFree(w)
    \/ \E w \in BagToSet(workers) : Retire(w)
    \/ PoolFinish

SpecPool == InitPool /\ [][NextPool]_vars

\* The node whose child list the innermost iteration of w is about to lock, or 0.
Wanted(w) ==
    IF Head(w).pc \in {"select", "best", "expand", "pick"}
    THEN Head(w).current_node ELSE 0

\* C12: no iteration waits forever for the lock of a child list: none waits
\* for a lock that select_best_child holds further down on its own thread's
\* call stack, where it is released only after the waiting iteration returns.
C12_NoIterationWaitsForever ==
    \A w \in BagToSet(workers) : \A i \in 2..Len(w) :
        ~(w[i].pc = "reduce" /\ w[i].current_node = Wanted(w))

\* ---------------------------------------------------------------------------
\* Claims about backpropagate, under SpecSearch
\* ---------------------------------------------------------------------------

\* The iterations of the set `its`, with their multiplicity, whose backpropagate
\* has yet to increment the visits of node n.
RECURSIVE VisitsToCome(_, _)
VisitsToCome(its, n) ==
    IF its = {} THEN 0
    ELSE LET it == CHOOSE x \in its : TRUE
         IN (IF \/ it.pc = "backpropagate" /\ n \in Ancestors(it.current)
                \/ it.pc = "backpropagate_score"
                    /\ n \in Ancestors(nodes[it.current].parent[1])
             THEN CopiesIn(it, iter) ELSE 0)
            + VisitsToCome(its \ {it}, n)

\* C21: a backpropagation adds exactly one visit and the payoff once to every
\* node from the parent of the simulated node up to the root, and nothing to
\* any other node: at every moment the visits of a node are the rollouts played
\* below it less the increments still on their way, so a node that was only
\* simulated from keeps visits = 0; a step changes the counters of no node but
\* the parent backpropagate stands at, its visits by one, and its score from a
\* value s to s + result.
C21_BackpropagateOncePerAncestor ==
    /\ [](pc \in {"iterating", "returned"} =>
            \A n \in 1..Len(nodes) :
                /\ nodes[n].visits + VisitsToCome(BagToSet(iter), n) = ResultCount(n)
                /\ RolloutsBelow(n) = {} =>
                        (nodes[n].visits = 0 /\ nodes[n].score = to_bits(0)))
    /\ [][\A n \in 1..Len(nodes) :
            /\ nodes'[n].visits # nodes[n].visits =>
                    /\ nodes'[n].visits = nodes[n].visits + 1
                    /\ nodes'[n].score = nodes[n].score
                    /\ \E it \in BagToSet(iter) :
                            /\ it.pc = "backpropagate"
                            /\ nodes[it.current].parent = Some(n)
            /\ nodes'[n].score # nodes[n].score =>
                    /\ nodes'[n].visits = nodes[n].visits
                    /\ \E it \in BagToSet(iter) :
                            /\ it.pc = "backpropagate_score"
                            /\ nodes[it.current].parent = Some(n)
                            /\ \E s \in (0 - MaxSteps)..MaxSteps :
                                    /\ DecodesTo(nodes[n].score, s)
                                    /\ DecodesTo(nodes'[n].score, s + it.result)]_vars

\* ---------------------------------------------------------------------------
\* Claims about the boards of legal play, under SpecSimulate: the turns of
\* play_match that lead to a board and the turns of a rollout played from it
\* ---------------------------------------------------------------------------

\* The minigrid holds a complete line of symbol s.
HasLine(minigrid, s) ==
    \E k \in 1..8 : check(minigrid, Lines[k][1], Lines[k][2], Lines[k][3]) = Some(s)

Full(minigrid) == \A j \in Idx : minigrid[j] # Empty

\* C22: on every board of legal play the slot of a minigrid holds a symbol
\* exactly when the minigrid holds a complete line of that symbol, no minigrid
\* holds complete lines of both symbols, and the slot of a minigrid that is
\* full without a line stays Empty.
C22_MinigridsResolvedOnce ==
    /\ [](\A i \in Idx :
            /\ \A s \in {Cross, Circle} :
                    grid.completed_minigrid[i] = s <=> HasLine(grid.matrix[i], s)
            /\ ~(HasLine(grid.matrix[i], Cross) /\ HasLine(grid.matrix[i], Circle)))
    /\ [][\A i \in Idx :
            (Full(grid.matrix[i]) /\ grid.completed_minigrid[i] = Empty) =>
                (grid'.completed_minigrid[i] = Empty /\ grid'.matrix[i] = grid.matrix[i])]_vars

\* A rollout has gone on for two moves or more on a board with minigrids
\* decided for either symbol and one that is full without a line.
C22_Witness ==
    /\ pc = "simulate"
    /\ number_turns >= 2
    /\ \E i \in Idx : Full(grid.matrix[i]) /\ grid.completed_minigrid[i] = Empty
    /\ \E i \in Idx : grid.completed_minigrid[i] = Cross
    /\ \E i \in Idx : grid.completed_minigrid[i] = Circle

\* ---------------------------------------------------------------------------
\* Grid::set and Grid::update_grid called freely, the arguments of set on record
\* ---------------------------------------------------------------------------

\* The arguments of the set calls: the top row of minigrid 0 and one cell each
\* of the minigrids 5 and 7, with every Cell value.
SetInputs ==
    {<<c, s>> : c \in {Coord(0, 0, 0, 0), Coord(0, 0, 1, 0), Coord(0, 0, 2, 0),
                       Coord(2, 1, 1, 2), Coord(1, 2, 0, 1)},
                s \in Cell}

\* set(coord, symbol); last_move and current_player keep the two arguments, as
\* they hold them when play_match makes the call (defs.rs:231).
CallSetOf ==
    /\ \E in \in SetInputs :
        /\ grid' = set(grid, in[1], in[2])
        /\ last_move' = Some(in[1])
        /\ current_player' = in[2]
    /\ op' = "set"
    /\ UNCHANGED <<pc, won, number_turns, stats, script, free, mctsVars>>

NextSet == CallSetOf \/ CallUpdateGrid

SpecSet == InitGrid /\ [][NextSet]_vars

\* C23: set(coord, symbol) writes symbol into cell x + 3*y of minigrid
\* meta_x + 3*meta_y, whatever the cell held, and changes no other cell and no
\* slot of the meta-outcome array; update_grid changes no cell.
C23_SetWritesOneCell ==
    [][/\ op' = "set" =>
            LET coord == last_move'[1]
                sym == current_player'
            IN /\ grid'.matrix[coord.meta_x + 3 * coord.meta_y][coord.x + 3 * coord.y]
                    = sym
               /\ \A i, j \in Idx :
                    (i # coord.meta_x + 3 * coord.meta_y \/ j # coord.x + 3 * coord.y)
                        => grid'.matrix[i][j] = grid.matrix[i][j]
               /\ grid'.completed_minigrid = grid.completed_minigrid
       /\ op' = "update_grid" => grid'.matrix = grid.matrix]_vars

\* set has just written Circle over a Cross of the row that update_grid had
\* recorded for Cross.
C23_Witness ==
    /\ op = "set"
    /\ last_move = Some(Coord(0, 0, 1, 0))
    /\ current_player = Circle
    /\ grid.matrix[0][1] = Circle
    /\ grid.matrix[0][0] = Cross
    /\ grid.matrix[0][2] = Cross
    /\ grid.completed_minigrid[0] = Cross
    /\ grid.matrix[5][7] = Cross

\* ---------------------------------------------------------------------------
\* Claims about the MatchStats of play_match, under Spec
\* ---------------------------------------------------------------------------

\* C24: whenever play_match returns, with a winner or for want of a legal
\* move, number_turns is the number of moves applied to final_grid.
C24_NumberTurnsCountsMoves ==
    pc = "returned" =>
        /\ stats # None
        /\ stats[1].number_turns = MovesPlayed(stats[1].final_grid)

\* ---------------------------------------------------------------------------
\* Claims about the visit counts ucb reads, under SpecSearch
\* ---------------------------------------------------------------------------

\* C25: at every moment of a select_move call the visits of a node that has a
\* parent are at most the visits of the parent, and whenever an iteration is
\* about to evaluate ucb for the children of a node, every child with
\* visits > 0 has a parent with visits >= 1 and a ucb that is not NaN.
C25_VisitsAtMostParents ==
    pc = "iterating" =>
        /\ \A n \in 1..Len(nodes) :
                nodes[n].parent # None =>
                    nodes[n].visits <= nodes[nodes[n].parent[1]].visits
        /\ \A it \in BagToSet(iter) :
                it.pc = "select" =>
                    \A c \in Range(nodes[it.current_node].children) :
                        nodes[c].visits > 0 =>
                            /\ nodes[it.current_node].visits >= 1
                            /\ ucb(c) # "nan"

====
